---- MODULE Spec2Model ----
(***************************************************************************)
(* Model of notes_editor: the window/GPU frame loop of src/app.rs, the     *)
(* square widget of src/widgets/square.rs and the start-up of src/run.rs.  *)
(*                                                                         *)
(* The program is single threaded: every handler of the closure passed to  *)
(* event_loop.run (app.rs:180-209) runs to completion, so each handler is  *)
(* one action.  The window system and the GPU are the environment: the     *)
(* window's physical size changes and the surface is lost behind the       *)
(* program's back, and the program learns of a size change only from the   *)
(* Resized / ScaleFactorChanged event that is queued for it.               *)
(*                                                                         *)
(* Numbers: widget coordinates are f32 in the source.  Positions are kept  *)
(* here in hundredths of a clip-space unit and colours in tenths, so all   *)
(* values of the sample widgets are integers.                              *)
(***************************************************************************)
EXTENDS Integers, Sequences, FiniteSets, TLC

\* ------------------------------------------------------------- bounds --
\* Largest physical width or height (in model pixels) the window takes.
MaxDim == 2
\* Most events waiting in the window system's queue.
MaxQueue == 1
\* Most widgets handed to App::new.
MaxWidgets == 2
\* The 0..100 range of widget coordinates is sampled at GridCells + 1 points.
GridCells == 5

VARIABLES
    pc,               \* "register" (run, the loop of 177-179), "loop", "exited", "panicked"
    app_widgets,      \* App.widgets: what App::new was given
    window,           \* the window's actual physical inner size
    size,             \* AppRender.size
    config,           \* AppRender.config
    surface,          \* the surface as last configured, and whether it is lost
    widgets,          \* AppRender.widgets: the retained drawable objects
    control_flow,     \* *control_flow of the event loop
    queue,            \* window events waiting to be dispatched
    redraw_requested, \* Window::request_redraw was called and not yet served
    exit_code,        \* the process's exit code, "none" while it runs
    calls,            \* the calls the last handler made on the renderer and the GPU, in order
    last,             \* which event the last handler served and what render returned
    recovering,       \* the last render returned Lost and nothing changed since
    widget,           \* a SquareWidget in the hands of application code
    built_from        \* how that widget was constructed, and from which description

vars == <<pc, app_widgets, window, size, config, surface, widgets, control_flow,
          queue, redraw_requested, exit_code, calls, last, recovering,
          widget, built_from>>

\* The variables of the widget under construction.
wvars == <<widget, built_from>>

\* ------------------------------------------------------- value spaces --
PhysicalSize(w, h) == [width |-> w, height |-> h]

\* The sizes the window takes: every width and height whose sum is at most MaxDim + 1.
Sizes == {sz \in {PhysicalSize(w, h) : w \in 1..MaxDim, h \in 1..MaxDim} :
             sz.width + sz.height <= MaxDim + 1}

NoSize == PhysicalSize(0, 0)

\* The size of another window: one that differs from sz.
OtherSize(sz) == CHOOSE s \in Sizes : s # sz

\* SurfaceCapabilities.formats as the platform may offer them.
FormatLists == {<<"Bgra8Unorm">>, <<"Bgra8Unorm", "Rgba8UnormSrgb">>}

\* SurfaceCapabilities.present_modes and alpha_modes.
PresentModes == <<"Fifo", "Mailbox">>

AlphaModes == <<"Opaque", "PreMultiplied">>

is_srgb(f) == f \in {"Bgra8UnormSrgb", "Rgba8UnormSrgb"}

Poll == [tag |-> "Poll", code |-> 0]

ExitWithCode(c) == [tag |-> "ExitWithCode", code |-> c]

\* ControlFlow::Exit is ExitWithCode(0).
Exit == ExitWithCode(0)

\* ------------------------------------------------------ square widget --
Vertex(x, y, color) == [position |-> <<x, y, 0>>, color |-> color]

SquareWidgetDesc(w, h, x, y, color) ==
    [width |-> w, height |-> h, x |-> x, y |-> y, color |-> color]

\* SquareWidget::new with the bottom edge above the top one (y + height).
SquareWidget_new_height_up(desc) ==
    LET x == 2 * desc.x - 100
        y == (-2) * desc.y + 100
        width == 2 * desc.width
        height == 2 * desc.height
    IN  [verticies |-> << Vertex(x, y, desc.color),
                          Vertex(x + width, y, desc.color),
                          Vertex(x, y + height, desc.color),
                          Vertex(x + width, y + height, desc.color) >>,
         indicies |-> <<0, 2, 1, 2, 3, 1>>,
         description |-> desc]

\* SquareWidget::new.  Positions in hundredths: (x/100)*2-1 is (2x-100)/100.
SquareWidget_new(desc) ==
    LET x == 2 * desc.x - 100
        y == (-2) * desc.y + 100
        width == 2 * desc.width
        height == 2 * desc.height
    IN  [verticies |-> << Vertex(x, y, desc.color),
                          Vertex(x + width, y, desc.color),
                          Vertex(x, y - height, desc.color),
                          Vertex(x + width, y - height, desc.color) >>,
         indicies |-> <<0, 2, 1, 2, 3, 1>>,
         description |-> desc]

\* Widget::create is Self::default(): zeroed vertices, the empty index slice.
SquareWidget_create ==
    [verticies |-> [i \in 1..4 |-> Vertex(0, 0, <<0, 0, 0, 0>>)],
     indicies |-> <<>>,
     description |-> SquareWidgetDesc(0, 0, 0, 0, <<0, 0, 0, 0>>)]

\* How a widget came to be: by create or new, and the description it was given.
Built(by, desc) == [by |-> by, desc |-> desc]

get_vertices(w) == w.verticies

get_indices(w) == w.indicies

\* set_x rebuilding the widget from the changed description.
set_x_rebuilds(w, x) == SquareWidget_new([w.description EXCEPT !.x = x])

\* The setters and getters of impl Widget for SquareWidget (78-111): they write
\* and read the description only.
set_color(w, color) == [w EXCEPT !.description.color = color]

get_color(w) == w.description.color

set_x(w, x) == [w EXCEPT !.description.x = x]

get_x(w) == w.description.x

set_y(w, y) == [w EXCEPT !.description.y = y]

get_y(w) == w.description.y

set_width(w, width) == [w EXCEPT !.description.width = width]

get_width(w) == w.description.width

set_height(w, height) == [w EXCEPT !.description.height = height]

get_height(w) == w.description.height

\* Widget::build: a boxed copy of the widget.
build(w) == w

\* The two widgets run() builds.
sample_box == SquareWidget_new(SquareWidgetDesc(100, 100, 0, 0, <<10, 10, 10, 12>>))

sample_box1 == SquareWidget_new(SquareWidgetDesc(100, 20, 0, 0, <<10, 0, 0, 10>>))

\* The widgets App::new may be given: one built by new, one by create.
WidgetPool == {sample_box1, SquareWidget_create}

\* All sequences over S of length at most n.
SeqUpTo(S, n) == UNION {[1..k -> S] : k \in 0..n}

\* SquareWidget::get_pipeline: the pipeline is compiled against app.config.format.
get_pipeline(w, cfg) ==
    [topology |-> "TriangleStrip",
     strip_index_format |-> "Uint16",
     front_face |-> "Ccw",
     cull_mode |-> "Back",
     format |-> cfg.format]

\* Primitive assembly of an index sequence s (1-based here, the indices
\* themselves 0-based).  A triangle list takes the indices three by three; a
\* triangle strip makes one triangle of every three consecutive indices and
\* swaps the last two of every second one.
assemble(topology, s) ==
    IF topology = "TriangleList"
    THEN [k \in 1..(Len(s) \div 3) |-> << s[3 * k - 2], s[3 * k - 1], s[3 * k] >>]
    ELSE [k \in 1..(IF Len(s) >= 3 THEN Len(s) - 2 ELSE 0) |->
             IF k % 2 = 1
             THEN << s[k], s[k + 1], s[k + 2] >>
             ELSE << s[k], s[k + 2], s[k + 1] >>]

\* Twice the signed area of triangle t over the vertices v: positive when its
\* corners run counter-clockwise in clip space, zero when it is degenerate.
signed_area(v, t) ==
    LET a == v[t[1] + 1].position
        b == v[t[2] + 1].position
        c == v[t[3] + 1].position
    IN  (b[1] - a[1]) * (c[2] - a[2]) - (b[2] - a[2]) * (c[1] - a[1])

\* Whether the pipeline's front_face / cull_mode discards triangle t.
culled(pipeline, v, t) ==
    LET area == signed_area(v, t)
        front == IF pipeline.front_face = "Ccw" THEN area > 0 ELSE area < 0
    IN  \/ area = 0
        \/ pipeline.cull_mode = "Back" /\ ~front
        \/ pipeline.cull_mode = "Front" /\ front

\* ------------------------------------------------------------ surface --
\* Surface::configure: the surface takes the configuration and is valid again.
configure(cfg) ==
    [width |-> cfg.width, height |-> cfg.height, format |-> cfg.format, lost |-> FALSE]

\* AppRender::init_config
init_config(formats, sz) ==
    LET srgb == {i \in 1..Len(formats) : is_srgb(formats[i])}
        format == IF srgb # {}
                  THEN formats[CHOOSE i \in srgb : \A j \in srgb : i <= j]
                  ELSE formats[1]
    IN  [usage |-> "RENDER_ATTACHMENT", format |-> format,
         width |-> sz.width, height |-> sz.height,
         present_mode |-> PresentModes[1], alpha_mode |-> AlphaModes[1]]

\* The transient conditions one acquisition may meet.
Faults == {"None", "Timeout", "OutOfMemory"}

\* Surface::get_current_texture: out of memory and timeout are conditions of the
\* call; Lost lasts until the surface is configured again; Outdated is a surface
\* configured at another size than the window has.
get_current_texture(srf, win, fault) ==
    IF fault = "OutOfMemory" THEN "OutOfMemory"
    ELSE IF srf.lost THEN "Lost"
    ELSE IF srf.width # win.width \/ srf.height # win.height THEN "Outdated"
    ELSE IF fault = "Timeout" THEN "Timeout"
    ELSE "Ok"

Call(op, arg) == [op |-> op, arg |-> arg]

\* ------------------------------------------------- graphics context --
\* draw_widgets walking the list from its end.
RECURSIVE draw_widgets_reversed(_, _)
draw_widgets_reversed(wdgs, i) ==
    IF i > Len(wdgs) THEN <<>>
    ELSE draw_widgets_reversed(wdgs, i + 1)
         \o << Call("set_pipeline", i),
               Call("set_vertex_buffer", i),
               Call("set_index_buffer", i),
               Call("draw_indexed", [object |-> i, first |-> 0, end |-> wdgs[i].index_len]) >>

\* The body of the for loop of AppRender::render (130-135), from widget i on.
RECURSIVE draw_widgets(_, _)
draw_widgets(wdgs, i) ==
    IF i > Len(wdgs) THEN <<>>
    ELSE << Call("set_pipeline", i),
            Call("set_vertex_buffer", i),
            Call("set_index_buffer", i),
            Call("draw_indexed", [object |-> i, first |-> 0, end |-> wdgs[i].index_len]) >>
         \o draw_widgets(wdgs, i + 1)

\* render without the `?`: the error is returned only after the pass was recorded
\* and submitted.
render_no_early_return(wdgs, srf, win, fault) ==
    LET background == get_current_texture(srf, win, fault)
    IN  [result |-> background,
         calls |-> << Call("get_current_texture", background),
                      Call("begin_render_pass", "Clear(GREEN)") >>
                   \o draw_widgets(wdgs, 1)
                   \o << Call("submit", 1) >>
                   \o (IF background = "Ok" THEN << Call("present", 0) >> ELSE <<>>)]

\* AppRender::render: `?` returns the acquisition error before anything is
\* recorded; otherwise one render pass, one submit, one present.
render(wdgs, srf, win, fault) ==
    LET background == get_current_texture(srf, win, fault)
    IN  IF background # "Ok"
        THEN [result |-> background,
              calls |-> << Call("get_current_texture", background) >>]
        ELSE [result |-> "Ok",
              calls |-> << Call("get_current_texture", "Ok"),
                           Call("begin_render_pass", "Clear(GREEN)") >>
                        \o draw_widgets(wdgs, 1)
                        \o << Call("submit", 1), Call("present", 0) >>]

\* resize with width and height crossed in the configuration.
resize_crossed(cfg, new_size) ==
    LET c == [cfg EXCEPT !.height = new_size.width, !.width = new_size.height]
    IN  [size |-> new_size,
         config |-> c,
         surface |-> configure(c),
         calls |-> << Call("configure", PhysicalSize(c.width, c.height)) >>]

\* resize without `self.size = new_size`.
resize_size_kept(cfg, new_size) ==
    LET c == [cfg EXCEPT !.height = new_size.height, !.width = new_size.width]
    IN  [size |-> PhysicalSize(cfg.width, cfg.height),
         config |-> c,
         surface |-> configure(c),
         calls |-> << Call("configure", PhysicalSize(c.width, c.height)) >>]

\* resize building the configuration anew with the default format.
resize_default_format(cfg, new_size) ==
    LET c == [cfg EXCEPT !.height = new_size.height, !.width = new_size.width,
                         !.format = "Bgra8Unorm"]
    IN  [size |-> new_size,
         config |-> c,
         surface |-> configure(c),
         calls |-> << Call("configure", PhysicalSize(c.width, c.height)) >>]

\* AppRender::resize
resize(cfg, new_size) ==
    LET c == [cfg EXCEPT !.height = new_size.height, !.width = new_size.width]
    IN  [size |-> new_size,
         config |-> c,
         surface |-> configure(c),
         calls |-> << Call("configure", PhysicalSize(c.width, c.height)) >>]

\* update reporting a failure.
update_fails == "Err"

\* AppRender::update
update == "Ok"

\* register_object taking the index count from the vertex array.
register_object_vertex_count(wdgs, cfg, object) ==
    Append(wdgs,
           [vertex_buffer |-> get_vertices(object),
            index_buffer |-> get_indices(object),
            vertex_len |-> Len(get_vertices(object)),
            index_len |-> Len(get_vertices(object)),
            render_pipeline |-> get_pipeline(object, cfg)])

\* App::register_object: the retained list with the widget's drawable pushed.
register_object(wdgs, cfg, object) ==
    Append(wdgs,
           [vertex_buffer |-> get_vertices(object),
            index_buffer |-> get_indices(object),
            vertex_len |-> Len(get_vertices(object)),
            index_len |-> Len(get_indices(object)),
            render_pipeline |-> get_pipeline(object, cfg)])

\* --------------------------------------------------------- frame loop --
\* What a handler leaves of the renderer and the control flow.
Outcome(cf, sz, cfg, srf, cs) ==
    [control_flow |-> cf, size |-> sz, config |-> cfg, surface |-> srf, calls |-> cs]

\* on_window_event ignoring the close request.
on_window_event_close_ignored(event, cf, sz, cfg, srf) ==
    CASE event.kind \in {"Resized", "ScaleFactorChanged"} ->
            LET r == resize(cfg, event.size)
            IN  Outcome(cf, r.size, r.config, r.surface, r.calls)
      [] OTHER -> Outcome(cf, sz, cfg, srf, <<>>)

\* The match on the window event, app.rs:182-194.
on_window_event(event, cf, sz, cfg, srf) ==
    CASE event.kind = "CloseRequested" -> Outcome(Exit, sz, cfg, srf, <<>>)
      [] event.kind = "Resized" ->
            LET r == resize(cfg, event.size)
            IN  Outcome(cf, r.size, r.config, r.surface, r.calls)
      [] event.kind = "ScaleFactorChanged" ->
            LET r == resize(cfg, event.size)
            IN  Outcome(cf, r.size, r.config, r.surface, r.calls)
      [] OTHER -> Outcome(cf, sz, cfg, srf, <<>>)

\* on_render_result with the Lost arm missing: Lost falls to the logging arm.
on_render_result_lost_logged(result, cf, sz, cfg, srf) ==
    CASE result = "Ok" -> Outcome(cf, sz, cfg, srf, <<>>)
      [] result = "OutOfMemory" -> Outcome(ExitWithCode(-1), sz, cfg, srf, <<>>)
      [] OTHER -> Outcome(cf, sz, cfg, srf, << Call("eprintln", result) >>)

\* on_render_result leaving on out of memory with the code of a normal close.
on_render_result_oom_exit0(result, cf, sz, cfg, srf) ==
    CASE result = "Ok" -> Outcome(cf, sz, cfg, srf, <<>>)
      [] result = "Lost" ->
            LET r == resize(cfg, sz)
            IN  Outcome(cf, r.size, r.config, r.surface, r.calls)
      [] result = "OutOfMemory" -> Outcome(Exit, sz, cfg, srf, <<>>)
      [] OTHER -> Outcome(cf, sz, cfg, srf, << Call("eprintln", result) >>)

\* on_render_result giving up on every error it does not name.
on_render_result_other_exits(result, cf, sz, cfg, srf) ==
    CASE result = "Ok" -> Outcome(cf, sz, cfg, srf, <<>>)
      [] result = "Lost" ->
            LET r == resize(cfg, sz)
            IN  Outcome(cf, r.size, r.config, r.surface, r.calls)
      [] result = "OutOfMemory" -> Outcome(ExitWithCode(-1), sz, cfg, srf, <<>>)
      [] OTHER -> Outcome(ExitWithCode(-1), sz, cfg, srf, << Call("eprintln", result) >>)

\* The match on render's result, app.rs:198-203.
on_render_result(result, cf, sz, cfg, srf) ==
    CASE result = "Ok" -> Outcome(cf, sz, cfg, srf, <<>>)
      [] result = "Lost" ->
            LET r == resize(cfg, sz)
            IN  Outcome(cf, r.size, r.config, r.surface, r.calls)
      [] result = "OutOfMemory" -> Outcome(ExitWithCode(-1), sz, cfg, srf, <<>>)
      [] OTHER -> Outcome(cf, sz, cfg, srf, << Call("eprintln", result) >>)

WindowEvent(kind, id, sz) == [kind |-> kind, window_id |-> id, size |-> sz]

Served(event, id, result, after) ==
    [event |-> event, window_id |-> id, result |-> result, after_recovery |-> after]

Apply(o) ==
    /\ control_flow' = o.control_flow
    /\ size' = o.size
    /\ config' = o.config
    /\ surface' = o.surface
    /\ calls' = o.calls

\* ---------------------------------------------------------------- Init --
\* App::run up to AppRender::new (170-176): the surface is configured at the
\* window's inner size and no widget is registered yet.
Init ==
    /\ pc = "register"
    /\ app_widgets \in SeqUpTo(WidgetPool, MaxWidgets)
    /\ window \in Sizes
    /\ size = window
    /\ \E formats \in FormatLists : config = init_config(formats, window)
    /\ surface = configure(config)
    /\ widgets = <<>>
    /\ control_flow = Poll
    /\ queue = <<>>
    /\ redraw_requested = FALSE
    /\ exit_code = "none"
    /\ calls = <<>>
    /\ last = Served("None", "none", "None", FALSE)
    /\ recovering = FALSE
    /\ widget = SquareWidget_create
    /\ built_from = Built("create", SquareWidget_create.description)

\* ------------------------------------------------------- registration --
\* One turn of the loop `for i in &self.widgets` (177-179).
Register ==
    /\ pc = "register"
    /\ Len(widgets) < Len(app_widgets)
    /\ widgets' = register_object(widgets, config, app_widgets[Len(widgets) + 1])
    /\ UNCHANGED <<pc, app_widgets, window, size, config, surface, control_flow,
                   queue, redraw_requested, exit_code, calls, last, recovering>>
    /\ UNCHANGED wvars

\* event_loop.run is entered (180).
StartLoop ==
    /\ pc = "register"
    /\ Len(widgets) = Len(app_widgets)
    /\ pc' = "loop"
    /\ UNCHANGED <<app_widgets, window, size, config, surface, widgets, control_flow,
                   queue, redraw_requested, exit_code, calls, last, recovering>>
    /\ UNCHANGED wvars

\* -------------------------------------------------------- environment --
Running == pc = "loop" /\ control_flow = Poll

\* The user or the window system gives the window another physical size; a
\* Resized event is queued for the loop.
WindowResized ==
    /\ Running
    /\ Len(queue) < MaxQueue
    /\ \E s \in Sizes \ {window} :
          /\ window' = s
          /\ queue' = Append(queue, WindowEvent("Resized", "main", s))
    /\ recovering' = FALSE
    /\ UNCHANGED <<pc, app_widgets, size, config, surface, widgets, control_flow,
                   redraw_requested, exit_code, calls, last>>
    /\ UNCHANGED wvars

\* The window moves to a display of another scale factor.
WindowScaleFactorChanged ==
    /\ Running
    /\ Len(queue) < MaxQueue
    /\ \E s \in Sizes \ {window} :
          /\ window' = s
          /\ queue' = Append(queue, WindowEvent("ScaleFactorChanged", "main", s))
    /\ recovering' = FALSE
    /\ UNCHANGED <<pc, app_widgets, size, config, surface, widgets, control_flow,
                   redraw_requested, exit_code, calls, last>>
    /\ UNCHANGED wvars

\* The user asks to close the window.
WindowCloseRequested ==
    /\ Running
    /\ Len(queue) < MaxQueue
    /\ queue' = Append(queue, WindowEvent("CloseRequested", "main", NoSize))
    /\ UNCHANGED <<pc, app_widgets, window, size, config, surface, widgets,
                   control_flow, redraw_requested, exit_code, calls, last, recovering>>
    /\ UNCHANGED wvars

\* A window event the match does not name (193), or one of another window (208).
WindowOtherEvent ==
    /\ Running
    /\ Len(queue) < MaxQueue
    /\ \E e \in {WindowEvent("Focused", "main", NoSize),
                 WindowEvent("CloseRequested", "other", NoSize),
                 WindowEvent("Resized", "other", OtherSize(window))} :
          queue' = Append(queue, e)
    /\ UNCHANGED <<pc, app_widgets, window, size, config, surface, widgets,
                   control_flow, redraw_requested, exit_code, calls, last, recovering>>
    /\ UNCHANGED wvars

\* The GPU or the compositor drops the surface.
SurfaceLost ==
    /\ Running
    /\ ~surface.lost
    /\ surface' = [surface EXCEPT !.lost = TRUE]
    /\ recovering' = FALSE
    /\ UNCHANGED <<pc, app_widgets, window, size, config, widgets, control_flow,
                   queue, redraw_requested, exit_code, calls, last>>
    /\ UNCHANGED wvars

\* ----------------------------------------------------------- handlers --
\* OnWindowEvent releasing the drawables when the window is resized.
OnWindowEvent_drops_widgets ==
    /\ Running
    /\ ~redraw_requested
    /\ queue # <<>>
    /\ Head(queue).window_id = "main"
    /\ Apply(on_window_event(Head(queue), control_flow, size, config, surface))
    /\ queue' = Tail(queue)
    /\ last' = Served(Head(queue).kind, "main", "None", FALSE)
    /\ widgets' = IF Head(queue).kind = "Resized" THEN <<>> ELSE widgets
    /\ UNCHANGED <<pc, app_widgets, window, redraw_requested, exit_code, recovering>>
    /\ UNCHANGED wvars

\* Event::WindowEvent for the renderer's window (181-195).
OnWindowEvent ==
    /\ Running
    /\ ~redraw_requested
    /\ queue # <<>>
    /\ Head(queue).window_id = "main"
    /\ Apply(on_window_event(Head(queue), control_flow, size, config, surface))
    /\ queue' = Tail(queue)
    /\ last' = Served(Head(queue).kind, "main", "None", FALSE)
    /\ UNCHANGED <<pc, app_widgets, window, widgets, redraw_requested, exit_code,
                   recovering>>
    /\ UNCHANGED wvars

\* OnForeignEvent without the window_id guard: the event is matched as the
\* renderer's own.
OnForeignEvent_unguarded ==
    /\ Running
    /\ ~redraw_requested
    /\ queue # <<>>
    /\ Head(queue).window_id # "main"
    /\ Apply(on_window_event(Head(queue), control_flow, size, config, surface))
    /\ queue' = Tail(queue)
    /\ last' = Served(Head(queue).kind, Head(queue).window_id, "None", FALSE)
    /\ UNCHANGED <<pc, app_widgets, window, widgets, redraw_requested, exit_code,
                   recovering>>
    /\ UNCHANGED wvars

\* An event of another window: the guard of 181 fails and `_ => {}` (208) takes it.
OnForeignEvent ==
    /\ Running
    /\ ~redraw_requested
    /\ queue # <<>>
    /\ Head(queue).window_id # "main"
    /\ queue' = Tail(queue)
    /\ calls' = <<>>
    /\ last' = Served(Head(queue).kind, Head(queue).window_id, "None", FALSE)
    /\ UNCHANGED <<pc, app_widgets, window, size, config, surface, widgets,
                   control_flow, redraw_requested, exit_code, recovering>>
    /\ UNCHANGED wvars

\* OnMainEventsCleared rendering by itself as well as requesting the redraw.
OnMainEventsCleared_renders ==
    /\ Running
    /\ ~redraw_requested
    /\ queue = <<>>
    /\ redraw_requested' = TRUE
    /\ calls' = render(widgets, surface, window, "None").calls
    /\ last' = Served("MainEventsCleared", "none", "None", FALSE)
    /\ UNCHANGED <<pc, app_widgets, window, size, config, surface, widgets,
                   control_flow, queue, exit_code, recovering>>
    /\ UNCHANGED wvars

\* Event::MainEventsCleared (205-207), sent once the queue is drained.
OnMainEventsCleared ==
    /\ Running
    /\ ~redraw_requested
    /\ queue = <<>>
    /\ redraw_requested' = TRUE
    /\ calls' = <<>>
    /\ last' = Served("MainEventsCleared", "none", "None", FALSE)
    /\ UNCHANGED <<pc, app_widgets, window, size, config, surface, widgets,
                   control_flow, queue, exit_code, recovering>>
    /\ UNCHANGED wvars

\* Event::RedrawRequested for the renderer's window (196-204).
OnRedrawRequested ==
    /\ Running
    /\ redraw_requested
    /\ \E fault \in Faults :
          IF update # "Ok"
          THEN /\ pc' = "panicked"
               /\ calls' = << Call("update", update) >>
               /\ last' = Served("RedrawRequested", "main", "None", recovering)
               /\ UNCHANGED <<control_flow, size, config, surface, recovering>>
          ELSE LET r == render(widgets, surface, window, fault)
                   o == on_render_result(r.result, control_flow, size, config, surface)
               IN  /\ Apply([o EXCEPT !.calls = << Call("update", update) >>
                                                   \o r.calls \o o.calls])
                   /\ last' = Served("RedrawRequested", "main", r.result, recovering)
                   /\ recovering' = (r.result = "Lost")
                   /\ pc' = pc
    /\ redraw_requested' = FALSE
    /\ UNCHANGED <<app_widgets, window, widgets, queue, exit_code>>
    /\ UNCHANGED wvars

\* Event::RedrawRequested of another window: the guard of 196 fails.
OnForeignRedrawRequested ==
    /\ Running
    /\ redraw_requested
    /\ last.event # "RedrawRequested"
    /\ calls' = <<>>
    /\ last' = Served("RedrawRequested", "other", "None", FALSE)
    /\ UNCHANGED <<pc, app_widgets, window, size, config, surface, widgets,
                   control_flow, queue, redraw_requested, exit_code, recovering>>
    /\ UNCHANGED wvars

\* The loop sees ExitWithCode and the process exits with that code.
LoopExit ==
    /\ pc = "loop"
    /\ control_flow.tag = "ExitWithCode"
    /\ pc' = "exited"
    /\ exit_code' = control_flow.code
    /\ UNCHANGED <<app_widgets, window, size, config, surface, widgets, control_flow,
                   queue, redraw_requested, calls, last, recovering>>
    /\ UNCHANGED wvars

\* ------------------------------------------- the widget on its own --
\* The points of 0..100 a description's x, y, width and height are drawn from.
Coords == {(100 * k) \div GridCells : k \in 0..GridCells}

\* The colours of run()'s two widgets, in tenths.
Colors == {<<10, 10, 10, 12>>, <<10, 0, 0, 10>>}

Descs == [width : Coords, height : Coords, x : Coords, y : Coords, color : Colors]

\* The values handed to the setters.
SetterValues == {0, 100}

\* A widget fresh from create(), and a graphics context to register it with.
WidgetInit ==
    /\ pc = "widget"
    /\ widget = SquareWidget_create
    /\ built_from = Built("create", SquareWidget_create.description)
    /\ app_widgets = <<>>
    /\ window = PhysicalSize(1, 1)
    /\ size = window
    /\ config = init_config(<<"Bgra8Unorm", "Rgba8UnormSrgb">>, window)
    /\ surface = configure(config)
    /\ widgets = <<>>
    /\ control_flow = Poll
    /\ queue = <<>>
    /\ redraw_requested = FALSE
    /\ exit_code = "none"
    /\ calls = <<>>
    /\ last = Served("None", "none", "None", FALSE)
    /\ recovering = FALSE

lvars == <<app_widgets, window, size, config, surface, control_flow, queue,
           redraw_requested, exit_code, calls, last, recovering>>

\* SquareWidget::new(desc)
WidgetNew ==
    /\ pc = "widget"
    /\ built_from.by = "create" /\ widget = SquareWidget_create
    /\ \E desc \in Descs :
          /\ widget' = SquareWidget_new(desc)
          /\ built_from' = Built("new", desc)
    /\ UNCHANGED <<pc, widgets>>
    /\ UNCHANGED lvars

WidgetSetX ==
    /\ pc = "widget"
    /\ \E v \in SetterValues : widget' = set_x(widget, v)
    /\ UNCHANGED <<pc, widgets, built_from>>
    /\ UNCHANGED lvars

WidgetSetY ==
    /\ pc = "widget"
    /\ \E v \in SetterValues : widget' = set_y(widget, v)
    /\ UNCHANGED <<pc, widgets, built_from>>
    /\ UNCHANGED lvars

WidgetSetWidth ==
    /\ pc = "widget"
    /\ \E v \in SetterValues : widget' = set_width(widget, v)
    /\ UNCHANGED <<pc, widgets, built_from>>
    /\ UNCHANGED lvars

WidgetSetHeight ==
    /\ pc = "widget"
    /\ \E v \in SetterValues : widget' = set_height(widget, v)
    /\ UNCHANGED <<pc, widgets, built_from>>
    /\ UNCHANGED lvars

WidgetSetColor ==
    /\ pc = "widget"
    /\ \E c \in Colors : widget' = set_color(widget, c)
    /\ UNCHANGED <<pc, widgets, built_from>>
    /\ UNCHANGED lvars

\* .build() and App::register_object of the boxed copy.
WidgetRegister ==
    /\ pc = "widget"
    /\ widgets' = register_object(widgets, config, build(widget))
    /\ pc' = "registered"
    /\ UNCHANGED <<widget, built_from>>
    /\ UNCHANGED lvars

WidgetNext ==
    \/ WidgetNew
    \/ WidgetSetX
    \/ WidgetSetY
    \/ WidgetSetWidth
    \/ WidgetSetHeight
    \/ WidgetSetColor
    \/ WidgetRegister

WidgetSpec == WidgetInit /\ [][WidgetNext]_vars

Next ==
    \/ Register
    \/ StartLoop
    \/ WindowResized
    \/ WindowScaleFactorChanged
    \/ WindowCloseRequested
    \/ WindowOtherEvent
    \/ SurfaceLost
    \/ OnWindowEvent
    \/ OnForeignEvent
    \/ OnMainEventsCleared
    \/ OnRedrawRequested
    \/ OnForeignRedrawRequested
    \/ LoopExit

Spec == Init /\ [][Next]_vars

\* ============================================================== claims ==
\* The step in which the RedrawRequested handler of the window runs.
RenderStep == redraw_requested /\ ~redraw_requested'

\* The step in which a queued window event is dispatched.
DispatchStep == queue # <<>> /\ queue' = Tail(queue)

\* render was called by the last handler and returned r.
Rendered(r) == last.event = "RedrawRequested" /\ last.window_id = "main" /\ last.result = r

ConfiguredAt(srf, cfg, sz) ==
    /\ cfg.width = sz.width /\ cfg.height = sz.height
    /\ srf.width = sz.width /\ srf.height = sz.height
    /\ ~srf.lost

C2_OutOfMemoryExits ==
    Rendered("OutOfMemory") =>
        /\ control_flow.tag = "ExitWithCode"
        /\ control_flow.code # 0
        /\ control_flow.code # Exit.code
        /\ pc \in {"loop", "exited"}
        /\ pc = "exited" => exit_code = control_flow.code /\ exit_code # 0

C2_Witness == Rendered("OutOfMemory") /\ pc = "exited" /\ exit_code = -1

\* C3: a CloseRequested event of the window, served while the loop runs, sets the
\* control flow to Exit; no handler runs after it and the process exits with 0.
C3_CloseExitsZero ==
    (last.event = "CloseRequested" /\ last.window_id = "main") =>
        /\ control_flow = Exit
        /\ pc \in {"loop", "exited"}
        /\ pc = "loop" => exit_code = "none"
        /\ pc = "exited" => exit_code = 0

C3_Witness == last.event = "CloseRequested" /\ last.window_id = "main" /\ pc = "exited"

\* C4: when render fails with Outdated the handler reconfigures the surface at the
\* stored size, as it does for Lost, and the loop keeps running.
C4_OutdatedReconfigures ==
    Rendered("Outdated") =>
        /\ calls = << Call("update", "Ok"), Call("get_current_texture", "Outdated"),
                      Call("configure", size) >>
        /\ control_flow = Poll

\* C5: a render error other than Lost and OutOfMemory (Timeout, Outdated) is only
\* printed: renderer, control flow and exit code are as before, nothing aborts,
\* and the loop is ready for the next event.
C5_OtherErrorsLogged ==
    [][(RenderStep /\ last'.result \notin {"None", "Ok", "Lost", "OutOfMemory"}) =>
         /\ calls' = << Call("update", "Ok"),
                        Call("get_current_texture", last'.result),
                        Call("eprintln", last'.result) >>
         /\ UNCHANGED <<size, config, surface, widgets, control_flow, exit_code, pc>>
         /\ Running']_vars

C5_Witness == Rendered("Timeout") /\ Running

\* C6: registration keeps one drawable per widget given to App::new, duplicates
\* included, in the order given; each drawable holds its widget's vertices and
\* indices and its index count is the length of the widget's index array.
C6_OneDrawablePerWidget ==
    /\ Len(widgets) <= Len(app_widgets)
    /\ pc # "register" => Len(widgets) = Len(app_widgets)
    /\ \A i \in 1..Len(widgets) :
          /\ widgets[i].index_len = Len(get_indices(app_widgets[i]))
          /\ widgets[i].index_buffer = get_indices(app_widgets[i])
          /\ widgets[i].vertex_buffer = get_vertices(app_widgets[i])

C6_Witness ==
    /\ pc = "loop"
    /\ Len(app_widgets) = 2
    /\ app_widgets[1] = app_widgets[2]
    /\ Len(widgets) = 2
    /\ widgets[1].index_len = 6

\* C7: a render that succeeds acquires, clears, then binds and draws each retained
\* drawable once, in registration order, over 0..index_len, then submits one
\* command buffer and presents last.
C7_FrameCallOrder ==
    Rendered("Ok") =>
        LET n == Len(widgets)
            frame == Tail(calls)
        IN  /\ Len(frame) = 4 * n + 4
            /\ frame[1] = Call("get_current_texture", "Ok")
            /\ frame[2] = Call("begin_render_pass", "Clear(GREEN)")
            /\ \A i \in 1..n :
                  /\ frame[4 * i - 1] = Call("set_pipeline", i)
                  /\ frame[4 * i] = Call("set_vertex_buffer", i)
                  /\ frame[4 * i + 1] = Call("set_index_buffer", i)
                  /\ frame[4 * i + 2] =
                        Call("draw_indexed",
                             [object |-> i, first |-> 0, end |-> widgets[i].index_len])
            /\ frame[4 * n + 3] = Call("submit", 1)
            /\ frame[4 * n + 4] = Call("present", 0)

C7_Witness == Rendered("Ok") /\ Len(widgets) = 2 /\ widgets[1] # widgets[2]

\* How often the last handler made the call op.
Count(op) == Cardinality({i \in DOMAIN calls : calls[i].op = op})

\* C8: a frame is whole or absent.  A render whose acquisition fails records no
\* pass, no draw, no submit and no present; one that succeeds draws every
\* drawable, submits once and presents once; no handler leaves a frame submitted
\* and not presented, or drawn and not submitted.
C8_FrameAllOrNothing ==
    /\ (last.event = "RedrawRequested" /\ last.result \notin {"None", "Ok"}) =>
          /\ Count("begin_render_pass") = 0
          /\ Count("draw_indexed") = 0
          /\ Count("submit") = 0
          /\ Count("present") = 0
    /\ Rendered("Ok") =>
          /\ Count("draw_indexed") = Len(widgets)
          /\ Count("submit") = 1
          /\ Count("present") = 1
    /\ Count("submit") = Count("present")
    /\ Count("draw_indexed") \in {0, Len(widgets)}
    /\ Count("draw_indexed") > 0 => Count("submit") = 1

C8_Witness == Rendered("Timeout") /\ Len(widgets) = 2 /\ Len(calls) = 3

\* A queued Resized or ScaleFactorChanged event of the window.
IsResize(e) == e.window_id = "main" /\ e.kind \in {"Resized", "ScaleFactorChanged"}

\* C9: handling a resize to (w,h), w > 0 and h > 0, stores (w,h) and configures the
\* surface at exactly (w,h), so an acquisition right after it, with the window at
\* (w,h), is never Outdated and succeeds when no condition of its own fails it.
C9_ResizeConfiguresExactly ==
    [][(DispatchStep /\ IsResize(Head(queue))) =>
          LET s == Head(queue).size
          IN  /\ s.width > 0 /\ s.height > 0
              /\ size' = s
              /\ ConfiguredAt(surface', config', s)
              /\ calls' = << Call("configure", s) >>
              /\ window' = s =>
                    /\ get_current_texture(surface', window', "None") = "Ok"
                    /\ \A f \in Faults :
                          get_current_texture(surface', window', f) # "Outdated"]_vars

C9_Witness ==
    /\ last.event = "Resized" /\ last.window_id = "main"
    /\ size = window
    /\ size.width # size.height
    /\ pc = "loop"

\* The resize events of the window still queued.
PendingResizes == SelectSeq(queue, IsResize)

\* C10 as stated: at every render the stored size and the configuration's width
\* and height are the window's physical size, and they change only by a resize
\* event.
C10_MirrorsWindowAtRender ==
    /\ [][RenderStep =>
            /\ size = window
            /\ config.width = window.width /\ config.height = window.height]_vars
    /\ [][(size' # size \/ config' # config) => (DispatchStep /\ IsResize(Head(queue)))]_vars

\* C10 amended: the stored size, the configuration's width and height and the
\* size the surface is configured at are always equal; they are the window's
\* physical size whenever no resize event of the window is queued, otherwise the
\* window has the size the last queued one carries; and they change only when a
\* resize event is handled, to the size it carries.
C10_MirrorsHandledResizes ==
    /\ [](/\ size = PhysicalSize(config.width, config.height)
          /\ surface.width = config.width /\ surface.height = config.height
          /\ IF PendingResizes = <<>>
             THEN size = window
             ELSE PendingResizes[Len(PendingResizes)].size = window)
    /\ [][(size' # size \/ config' # config) =>
            /\ DispatchStep /\ IsResize(Head(queue))
            /\ size' = Head(queue).size]_vars

C10_Witness ==
    /\ last.event = "ScaleFactorChanged" /\ last.window_id = "main"
    /\ size = window
    /\ pc = "loop"

\* The positions of the widget's four vertices.
Pos(i) == get_vertices(widget)[i].position

\* C11: new(desc), with width, height, x and y in 0..100, yields four vertices in
\* the order top-left, top-right, bottom-left, bottom-right: the top-left at
\* ((x/100)*2-1, (y/100)*-2+1), the rectangle w*0.02 wide and h*0.02 high, every
\* vertex with the description's colour (positions in hundredths: 2x-100,
\* 100-2y, 2w, 2h).  100x100 at (0,0) is the whole viewport, 100x20 at (0,0) its
\* top fifth.
C11_RectangleGeometry ==
    built_from.by = "new" =>
        LET d == built_from.desc
        IN  /\ Len(get_vertices(widget)) = 4
            /\ Pos(1) = << 2 * d.x - 100, 100 - 2 * d.y, 0 >>
            /\ Pos(2) = << Pos(1)[1] + 2 * d.width, Pos(1)[2], 0 >>
            /\ Pos(3) = << Pos(1)[1], Pos(1)[2] - 2 * d.height, 0 >>
            /\ Pos(4) = << Pos(2)[1], Pos(3)[2], 0 >>
            /\ \A i \in 1..4 : get_vertices(widget)[i].color = d.color
            /\ (d.width = 100 /\ d.height = 100 /\ d.x = 0 /\ d.y = 0) =>
                  << Pos(1), Pos(2), Pos(3), Pos(4) >> =
                  << <<-100, 100, 0>>, <<100, 100, 0>>, <<-100, -100, 0>>, <<100, -100, 0>> >>
            /\ (d.width = 100 /\ d.height = 20 /\ d.x = 0 /\ d.y = 0) =>
                  << Pos(1), Pos(2), Pos(3), Pos(4) >> =
                  << <<-100, 100, 0>>, <<100, 100, 0>>, <<-100, 60, 0>>, <<100, 60, 0>> >>

C11_Witness ==
    /\ built_from = Built("new", SquareWidgetDesc(100, 20, 0, 0, <<10, 0, 0, 10>>))
    /\ Pos(3) = <<-100, 60, 0>>

\* The triangles the widget's pipeline assembles from its indices.
Primitives == assemble(get_pipeline(widget, config).topology, get_indices(widget))

\* C12: for a rectangle of positive width and height, the pipeline assembles the
\* indices [0,2,1,2,3,1] into exactly two triangles, which use all four vertices
\* and wind the same way, so culling keeps both or neither.
C12_TwoTrianglesOneWinding ==
    (built_from.by = "new" /\ built_from.desc.width > 0 /\ built_from.desc.height > 0) =>
        /\ get_indices(widget) = <<0, 2, 1, 2, 3, 1>>
        /\ Len(Primitives) = 2
        /\ UNION {{Primitives[k][j] : j \in 1..3} : k \in DOMAIN Primitives} = 0..3
        /\ \A k \in DOMAIN Primitives : signed_area(get_vertices(widget), Primitives[k]) # 0
        /\ \A k, l \in DOMAIN Primitives :
              (signed_area(get_vertices(widget), Primitives[k]) > 0)
                  = (signed_area(get_vertices(widget), Primitives[l]) > 0)
        /\ \A k, l \in DOMAIN Primitives :
              culled(get_pipeline(widget, config), get_vertices(widget), Primitives[k])
                  = culled(get_pipeline(widget, config), get_vertices(widget), Primitives[l])

\* C13: the RedrawRequested handler of the window calls update once, before
\* render, and render once; no other handler calls update; update returns Ok, so
\* the expect on it never aborts the process.
C13_UpdateThenRender ==
    /\ pc # "panicked"
    /\ (last.event = "RedrawRequested" /\ last.window_id = "main") =>
          /\ calls[1] = Call("update", "Ok")
          /\ calls[2].op = "get_current_texture"
          /\ Count("update") = 1
          /\ Count("get_current_texture") = 1
    /\ ~(last.event = "RedrawRequested" /\ last.window_id = "main") =>
          Count("update") = 0

C13_Witness == Rendered("Ok") /\ calls[1] = Call("update", "Ok") /\ pc = "loop"

\* C14: render is called only by the RedrawRequested handler of the window, once
\* per such event; the close, resize, scale-factor, foreign and events-drained
\* handlers never call it, and the events-drained handler does nothing but
\* request a redraw.
C14_RenderOnlyOnRedraw ==
    /\ [](/\ Count("get_current_texture") <= 1
          /\ Count("get_current_texture") = 1 =>
                (last.event = "RedrawRequested" /\ last.window_id = "main")
          /\ last.result # "None" =>
                (last.event = "RedrawRequested" /\ last.window_id = "main")
          /\ last.event = "MainEventsCleared" => calls = <<>>)
    /\ [][(~redraw_requested /\ redraw_requested') =>
            /\ last'.event = "MainEventsCleared"
            /\ calls' = <<>>
            /\ UNCHANGED <<size, config, surface, widgets, control_flow, pc,
                           exit_code, queue, window>>]_vars
    /\ [][(last' # last /\ last'.result # "None") => RenderStep]_vars

C14_Witness == last.event = "MainEventsCleared" /\ redraw_requested /\ calls = <<>>

\* C15: once the loop runs, no step adds, removes, reorders or changes a
\* drawable: the retained list is what registration left.
C15_DrawablesFixedInLoop ==
    [][pc = "loop" => (widgets' = widgets /\ app_widgets' = app_widgets)]_vars

C15_Witness ==
    /\ Rendered("Lost")
    /\ Len(widgets) = 2
    /\ size # PhysicalSize(1, 1)

\* C16: handling a resize changes the stored size and the configuration's width
\* and height and nothing else of the renderer; format, usage, present mode and
\* alpha mode never change, so every drawable's pipeline targets the format of
\* the configuration and of the surface.
C16_FormatFixed ==
    /\ [](/\ surface.format = config.format
          /\ \A i \in 1..Len(widgets) : widgets[i].render_pipeline.format = config.format)
    /\ [][/\ config'.format = config.format
          /\ config'.usage = config.usage
          /\ config'.present_mode = config.present_mode
          /\ config'.alpha_mode = config.alpha_mode]_vars
    /\ [][(DispatchStep /\ IsResize(Head(queue))) =>
            UNCHANGED <<widgets, control_flow, pc, exit_code>>]_vars

C16_Witness ==
    /\ last.event = "Resized" /\ last.window_id = "main"
    /\ Len(widgets) = 2
    /\ config.format = "Rgba8UnormSrgb"
    /\ widgets[2].render_pipeline.format = "Rgba8UnormSrgb"

\* C17: the control flow leaves Poll only in the CloseRequested handler of the
\* window (to Exit) and in the RedrawRequested handler when render returned
\* OutOfMemory (to ExitWithCode(-1)); nothing else ends or aborts the loop.
C17_ExitOnlyByCloseOrOom ==
    /\ pc \in {"register", "loop", "exited"}
    /\ control_flow # Poll =>
          \/ last.event = "CloseRequested" /\ last.window_id = "main" /\ control_flow = Exit
          \/ Rendered("OutOfMemory") /\ control_flow = ExitWithCode(-1)
    /\ pc = "exited" => (control_flow # Poll /\ exit_code = control_flow.code)
    /\ pc # "exited" => exit_code = "none"

C17_Witness ==
    /\ last.event = "CloseRequested" /\ last.window_id = "other"
    /\ Running
    /\ size # PhysicalSize(1, 1)

\* What construction gave the widget.
Constructed ==
    IF built_from.by = "new" THEN SquareWidget_new(built_from.desc) ELSE SquareWidget_create

\* C18: the vertices and indices of a square widget are those of its
\* construction: the setters change what the getters return (the description)
\* and leave get_vertices and get_indices as they were, so a widget registered
\* after them uploads the geometry of the description it was built from.
C18_SettersKeepGeometry ==
    /\ get_vertices(widget) = Constructed.verticies
    /\ get_indices(widget) = Constructed.indicies
    /\ pc = "registered" =>
          /\ Len(widgets) = 1
          /\ widgets[1].vertex_buffer = Constructed.verticies
          /\ widgets[1].index_buffer = Constructed.indicies
    /\ get_x(widget) \in SetterValues \cup {built_from.desc.x}
    /\ get_y(widget) \in SetterValues \cup {built_from.desc.y}
    /\ get_width(widget) \in SetterValues \cup {built_from.desc.width}
    /\ get_height(widget) \in SetterValues \cup {built_from.desc.height}

C18_Witness ==
    /\ pc = "registered"
    /\ built_from.by = "new"
    /\ get_x(widget) # built_from.desc.x
    /\ get_width(widget) # built_from.desc.width
    /\ get_color(widget) # built_from.desc.color
    /\ widgets[1].vertex_buffer = SquareWidget_new(built_from.desc).verticies

====
